---- MODULE Spec2Model ----
(***************************************************************************)
(* Model of deduplicator.py (sevangelatos/Deduplicator): the size ->       *)
(* partial hash -> full hash grouping pipeline (deduplicate) and the       *)
(* hardlink consolidation (make_hardlinks) run by main() over a POSIX      *)
(* directory namespace.                                                    *)
(***************************************************************************)
EXTENDS Integers, Sequences, FiniteSets, TLC

\* Longest input path sequence read from stdin.
MaxFiles == 4

\* Most I/O errors in one execution that the namespace does not explain (a
\* file that became unreadable after stat, EACCES or EIO in rename, link or
\* unlink).  Errors the namespace explains (ENOENT, EEXIST, EXDEV) are not
\* limited.
MaxFaults == 1

VARIABLES
    dir,          \* the namespace: path -> inode id (<<st_dev, st_ino>>) or NoFile
    filenames,    \* the input path sequence (read_filenames)
    dry_run,      \* Options.dry_run
    pc,           \* position of the program
    stage,        \* group_compose: index of the grouping function being applied
    data,         \* group_compose: groups still to be fed to functions[stage]
    newdata,      \* group_compose: groups produced so far by functions[stage]
    calls,        \* history: every group_by_hash invocation and what it hashed
    faults,       \* number of I/O errors so far that the namespace does not explain
    run,          \* 1: first consolidation pass, 2: the pass repeated
    groups,       \* main: terminal groups still to be handed to the action
    yielded,      \* history: the terminal groups deduplicate() yielded, in order
    parts,        \* make_hardlinks: device partitions still to process
    master,       \* make_hardlinks_within_device: the survivor
    targets,      \* make_hardlinks_within_device: members still to replace
    dev_bytes,    \* make_hardlinks_within_device: bytes_hardlinked
    group_bytes,  \* make_hardlinks: bytes_hardlinked
    total_bytes,  \* main: total_bytes
    attempts,     \* history: every hardlink(src, dest) call
    completed,    \* history: hardlink calls that returned the size of dest
    ops,          \* history: every rename / link / unlink performed
    returned,     \* history: every make_hardlinks return value
    stderr        \* diagnostics written to sys.stderr

vars == <<dir, filenames, dry_run, pc, stage, data, newdata, calls, faults, run,
          groups, yielded, parts, master, targets, dev_bytes, group_bytes,
          total_bytes, attempts, completed, ops, returned, stderr>>

----------------------------------------------------------------------------
(* Sequence helpers *)

RECURSIVE SetToSeq(_)
\* The elements of a finite set of integers, ascending.
SetToSeq(S) ==
    IF S = {} THEN <<>>
    ELSE LET m == CHOOSE x \in S : \A y \in S : x <= y
         IN <<m>> \o SetToSeq(S \ {m})

RECURSIVE Flatten(_)
\* list.extend over a sequence of lists
Flatten(ss) == IF ss = <<>> THEN <<>> ELSE Head(ss) \o Flatten(Tail(ss))

SeqsUpTo(S, n) == UNION {[1..k -> S] : k \in 0..n}

----------------------------------------------------------------------------
(* The filesystem *)

NoFile == <<0, 0>>
NoInfo == [filename |-> <<"", 0>>]

Path(n) == <<n, 0>>
\* dest.filename + fsencode(".bak"): one more ".bak" suffix on the same name
Bak(filename) == <<filename[1], filename[2] + 1>>

\* Byte strings held by the inodes of the fixture.
C00 == <<0, 0>>
C01 == <<0, 1>>
C10 == <<1, 0>>
C0  == <<0>>

\* inode id -> [mode, size, content]; content never changes during a run
Inode(i) ==
    CASE i = <<1, 1>> -> [mode |-> "reg", size |-> 2, content |-> C00]
      [] i = <<1, 2>> -> [mode |-> "reg", size |-> 2, content |-> C00]
      [] i = <<1, 3>> -> [mode |-> "reg", size |-> 2, content |-> C00]
      [] i = <<1, 4>> -> [mode |-> "reg", size |-> 2, content |-> C01]
      [] i = <<2, 1>> -> [mode |-> "reg", size |-> 2, content |-> C00]
      [] i = <<2, 4>> -> [mode |-> "reg", size |-> 2, content |-> C00]
      [] i = <<1, 5>> -> [mode |-> "reg", size |-> 2, content |-> C10]
      [] i = <<1, 6>> -> [mode |-> "reg", size |-> 1, content |-> C0]
      [] i = <<1, 7>> -> [mode |-> "reg", size |-> 0, content |-> <<>>]
      [] i = <<1, 8>> -> [mode |-> "dir", size |-> 2, content |-> <<>>]

\* The directory entries before the program starts.  "m" does not exist.
Fixture ==
    (Path("a") :> <<1, 1>>) @@ (Bak(Path("a")) :> <<1, 3>>) @@
    (Path("c") :> <<1, 3>>) @@
    (Path("b") :> <<1, 2>>) @@ (Bak(Path("b")) :> <<1, 4>>) @@
    (Path("e") :> <<2, 1>>) @@ (Path("f") :> <<2, 4>>) @@
    (Path("g") :> <<1, 5>>) @@ (Path("h") :> <<1, 6>>) @@
    (Path("z") :> <<1, 7>>) @@ (Path("n") :> <<1, 8>>)

Names == {"a", "b", "c", "e", "f", "g", "h", "z", "n", "m"}
AllPaths == UNION {{Path(n), Bak(Path(n)), Bak(Bak(Path(n)))} : n \in Names}

InitialDir == [p \in AllPaths |-> IF p \in DOMAIN Fixture THEN Fixture[p] ELSE NoFile]

\* The device a path lives on (its mount point).
DevOfPath(p) == IF p[1] \in {"e", "f"} THEN 2 ELSE 1

\* os.stat(f); raises OSError when Exists is false
Exists(d, f) == d[f] # NoFile
os_stat(d, f) ==
    [st_mode  |-> Inode(d[f]).mode,
     st_ino   |-> d[f][2],
     st_dev   |-> d[f][1],
     st_nlink |-> Cardinality({p \in AllPaths : d[p] = d[f]}),
     st_size  |-> Inode(d[f]).size]

FileInfo(d, f) == [filename |-> f, stat |-> os_stat(d, f)]

regular_file(info) == info.stat.st_mode = "reg"

----------------------------------------------------------------------------
(* Hash providers *)

\* chunk_size of read_chunk (16 * 1024 in the source), in a unit scaled so
\* that the two-byte files of the fixture span more than one chunk.
chunk_size == 1

\* stream.read(chunk_size): at most chunk_size bytes from the current position
read_chunk(stream) ==
    SubSeq(stream, 1, IF Len(stream) < chunk_size THEN Len(stream) ELSE chunk_size)

\* A collision-free digest over the bounded content domain: h.update(block)
\* appends the block's bytes to the state, digest() reads the state out.
update(h, block) == h \o block
RECURSIVE digest(_)
digest(h) == IF h = <<>> THEN 1 ELSE 2 * digest(SubSeq(h, 1, Len(h) - 1)) + h[Len(h)]

RECURSIVE sha1_loop(_, _)
\* for block in iter(partial(read_chunk, f), b''): h.update(block)
sha1_loop(h, stream) ==
    IF read_chunk(stream) = <<>> THEN h
    ELSE sha1_loop(update(h, read_chunk(stream)),
                   SubSeq(stream, Len(read_chunk(stream)) + 1, Len(stream)))

\* Mutant: the full hash stops after the first block.
sha1_first_block(d, filename) ==
    digest(update(<<>>, read_chunk(Inode(d[filename]).content)))

sha1(d, filename) == digest(sha1_loop(<<>>, Inode(d[filename]).content))

fast_hash(d, filename) ==
    digest(update(<<>>, read_chunk(Inode(d[filename]).content)))

\* open(filename, 'rb') raises IOError: no such file, or a directory
OpenFails(d, filename) == ~Exists(d, filename) \/ Inode(d[filename]).mode # "reg"

----------------------------------------------------------------------------
(* Grouping engine *)

Range(s) == {s[i] : i \in DOMAIN s}

\* Mutant: each bucket collects its members newest first.
group_by_prepend(files, key) ==
    LET first == {i \in DOMAIN files :
                    \A j \in 1..(i - 1) : key[files[j]] # key[files[i]]}
        order == SetToSeq(first)
        bucket(k) == SelectSeq(files, LAMBDA f : key[f] = k)
        rev(s) == [i \in 1..Len(s) |-> s[Len(s) + 1 - i]]
    IN [n \in 1..Len(order) |->
          [key |-> key[files[order[n]]], items |-> rev(bucket(key[files[order[n]]]))]]

\* group_by: a dict key -> list, keys in first-insertion order (the dict of
\* Python 3.7 and later), each list in the order of files.  Modelled as the
\* sequence of (key, items) entries;
\* key is the key function, tabulated over the members of files.
group_by(files, key) ==
    LET first == {i \in DOMAIN files :
                    \A j \in 1..(i - 1) : key[files[j]] # key[files[i]]}
        order == SetToSeq(first)
        bucket(k) == SelectSeq(files, LAMBDA f : key[f] = k)
    IN [n \in 1..Len(order) |->
          [key |-> key[files[order[n]]], items |-> bucket(key[files[order[n]]])]]

\* dict.values()
values(by_group) == [n \in DOMAIN by_group |-> by_group[n].items]

\* Mutant: keeps every non-empty group.
filter_solo_nonempty(items_list) == SelectSeq(items_list, LAMBDA i : Len(i) > 0)

filter_solo(items_list) == SelectSeq(items_list, LAMBDA i : Len(i) > 1)

group_by_size(files) ==
    values(group_by(files, [f \in Range(files) |-> f.stat.st_size]))

\* Mutant: one partition whatever the device.
group_by_dev_none(files) == values(group_by(files, [f \in Range(files) |-> 0]))

group_by_dev(files) ==
    values(group_by(files, [f \in Range(files) |-> f.stat.st_dev]))

\* stat_files: FileInfo of every path that can be stat'ed, is a regular file
\* and is not empty, in input order.
stat_files(d, names) ==
    LET found == SelectSeq(names, LAMBDA f : Exists(d, f))
        infos == [i \in DOMAIN found |-> FileInfo(d, found[i])]
    IN SelectSeq(infos, LAMBDA info : regular_file(info) /\ info.stat.st_size # 0)

\* the "Could not stat" diagnostics of stat_files
stat_errors(d, names) ==
    LET bad == SelectSeq(names, LAMBDA f : ~Exists(d, f))
    IN [i \in 1..Len(bad) |-> <<"stat", bad[i]>>]

\* Mutant: the short-circuit is taken only for an empty group.
group_by_hash_no_shortcut(files, hash_function, raises) ==
    LET by_dev_inode == values(group_by(files,
                          [f \in Range(files) |-> <<f.stat.st_ino, f.stat.st_dev>>]))
        hashed  == SelectSeq(by_dev_inode, LAMBDA s : s[1].filename \notin raises)
        by_hash == group_by(hashed,
                          [s \in Range(hashed) |-> hash_function[s[1].filename]])
        bad     == SelectSeq(by_dev_inode, LAMBDA s : s[1].filename \in raises)
    IN IF Len(by_dev_inode) < 1
       THEN [result |-> <<files>>, hashed |-> <<>>, errors |-> <<>>]
       ELSE [result |-> [n \in DOMAIN by_hash |-> Flatten(by_hash[n].items)],
             hashed |-> [n \in DOMAIN by_dev_inode |-> by_dev_inode[n][1].filename],
             errors |-> [n \in DOMAIN bad |-> <<"hash", bad[n][1].filename>>]]

\* Mutant: only the hashed representative of each partition is kept.
group_by_hash_first_only(files, hash_function, raises) ==
    LET by_dev_inode == values(group_by(files,
                          [f \in Range(files) |-> <<f.stat.st_ino, f.stat.st_dev>>]))
        hashed  == SelectSeq(by_dev_inode, LAMBDA s : s[1].filename \notin raises)
        by_hash == group_by(hashed,
                          [s \in Range(hashed) |-> hash_function[s[1].filename]])
        bad     == SelectSeq(by_dev_inode, LAMBDA s : s[1].filename \in raises)
    IN IF Len(by_dev_inode) <= 1
       THEN [result |-> <<files>>, hashed |-> <<>>, errors |-> <<>>]
       ELSE [result |-> [n \in DOMAIN by_hash |->
                           [k \in DOMAIN by_hash[n].items |-> by_hash[n].items[k][1]]],
             hashed |-> [n \in DOMAIN by_dev_inode |-> by_dev_inode[n][1].filename],
             errors |-> [n \in DOMAIN bad |-> <<"hash", bad[n][1].filename>>]]

\* group_by_hash.  hash_function: filename -> digest; raises: the filenames on
\* which hash_function raises IOError.  result: the returned groups; hashed:
\* the files hash_function was called on, in call order; errors: the
\* diagnostics printed.
group_by_hash(files, hash_function, raises) ==
    LET by_dev_inode == values(group_by(files,
                          [f \in Range(files) |-> <<f.stat.st_ino, f.stat.st_dev>>]))
        hashed  == SelectSeq(by_dev_inode, LAMBDA s : s[1].filename \notin raises)
        by_hash == group_by(hashed,
                          [s \in Range(hashed) |-> hash_function[s[1].filename]])
        bad     == SelectSeq(by_dev_inode, LAMBDA s : s[1].filename \in raises)
    IN IF Len(by_dev_inode) <= 1
       THEN [result |-> <<files>>, hashed |-> <<>>, errors |-> <<>>]
       ELSE [result |-> [n \in DOMAIN by_hash |-> Flatten(by_hash[n].items)],
             hashed |-> [n \in DOMAIN by_dev_inode |-> by_dev_inode[n][1].filename],
             errors |-> [n \in DOMAIN bad |-> <<"hash", bad[n][1].filename>>]]

\* The filenames of a group
Filenames(files) == {f.filename : f \in Range(files)}

\* deduplicate's functions list: 1 group_by_size, 2 group_by_hash with
\* fast_hash, 3 group_by_hash with sha1.  fault: the files on which an I/O
\* fault is injected.
functions(n, d, files, fault) ==
    LET raises == {f \in Filenames(files) : f \in fault \/ OpenFails(d, f)}
    IN CASE n = 1 -> [result |-> group_by_size(files), hashed |-> <<>>,
                      errors |-> <<>>]
         [] n = 2 -> group_by_hash(files,
                        [f \in Filenames(files) \ raises |-> fast_hash(d, f)], raises)
         [] n = 3 -> group_by_hash(files,
                        [f \in Filenames(files) \ raises |-> sha1(d, f)], raises)

\* len(functions) in deduplicate
NumFunctions == 3

RECURSIVE group_compose(_, _, _)
\* group_compose from functions[n] on, with no I/O fault
group_compose(n, d, groupsIn) ==
    IF n > NumFunctions THEN groupsIn
    ELSE group_compose(n + 1, d,
            Flatten([i \in DOMAIN groupsIn |->
                        filter_solo(functions(n, d, groupsIn[i], {}).result)]))

\* deduplicate(filenames) when no hash computation fails
deduplicate(d, names) == group_compose(1, d, <<stat_files(d, names)>>)

----------------------------------------------------------------------------
(* Initial states *)

\* Paths fed to the grouping pipeline on its own.
DedupInputs ==
    {Bak(Path("a")), Path("c"), Bak(Path("b")), Path("f"),
     Path("g"), Path("h"), Path("z"), Path("n"), Path("m")}

\* Paths fed to the program when it consolidates.  "c", the other name of the
\* inode of "a.bak", stays in the directory and is not an input.
LinkInputs ==
    {Path("a"), Bak(Path("a")), Path("b"), Path("e"), Path("f")}

Idle ==
    /\ dir = InitialDir
    /\ pc = "start"
    /\ stage = 0 /\ data = <<>> /\ newdata = <<>> /\ calls = <<>>
    /\ faults = 0 /\ run = 1
    /\ groups = <<>> /\ yielded = <<>> /\ parts = <<>>
    /\ master = NoInfo /\ targets = <<>>
    /\ dev_bytes = 0 /\ group_bytes = 0 /\ total_bytes = 0
    /\ attempts = <<>> /\ completed = <<>> /\ ops = <<>> /\ returned = <<>>
    /\ stderr = <<>>

InitDedup ==
    /\ filenames \in SeqsUpTo(DedupInputs, MaxFiles)
    /\ dry_run = FALSE
    /\ Idle

Init ==
    /\ filenames \in SeqsUpTo(LinkInputs, MaxFiles)
    /\ dry_run \in BOOLEAN
    /\ Idle

linkVars == <<dir, run, groups, parts, master, targets, dev_bytes, group_bytes,
              total_bytes, attempts, completed, ops, returned>>

----------------------------------------------------------------------------
(* deduplicate, one grouping call at a time *)

\* all_files = [stat_files(filenames)]
StatFiles ==
    /\ pc = "start"
    /\ data' = <<stat_files(dir, filenames)>>
    /\ stderr' = stderr \o stat_errors(dir, filenames)
    /\ stage' = 1
    /\ pc' = "compose"
    /\ UNCHANGED <<filenames, dry_run, newdata, calls, faults, yielded>>
    /\ UNCHANGED linkVars

\* One iteration of group_compose's inner loop: f = functions[stage] applied
\* to the next group, with I/O faults on the files in fault, and
\* newdata.extend(filter_solo(d)).  When that was the last group the outer
\* loop goes on: data = newdata and the next f; the functions left find no
\* group to work on when data is empty, and after the last one deduplicate
\* yields the groups of data.
ApplyTo(fault) ==
    \E r \in {functions(stage, dir, Head(data), fault)} :
    \E out \in {newdata \o filter_solo(r.result)} :
    LET last == Tail(data) = <<>>
        over == last /\ (stage = NumFunctions \/ out = <<>>)
    IN /\ calls' = IF stage = 1 THEN calls
                   ELSE Append(calls, [stage |-> stage, files |-> Head(data),
                                       hashed |-> r.hashed, result |-> r.result])
       /\ stderr' = stderr \o r.errors
       /\ newdata' = IF last THEN <<>> ELSE out
       /\ data' = IF last THEN out ELSE Tail(data)
       /\ stage' = IF ~last THEN stage ELSE IF over THEN NumFunctions ELSE stage + 1
       /\ pc' = IF over THEN "yielded" ELSE pc
       /\ yielded' = IF over THEN out ELSE yielded

Apply ==
    /\ pc = "compose" /\ data # <<>>
    /\ ApplyTo({})
    /\ UNCHANGED <<filenames, dry_run, faults>>
    /\ UNCHANGED linkVars

\* The same, with one file that cannot be read any more when it is hashed.
ApplyWithFault ==
    /\ pc = "compose" /\ data # <<>> /\ stage > 1 /\ faults < MaxFaults
    /\ \E f \in Range(functions(stage, dir, Head(data), {}).hashed) :
          ApplyTo({f})
    /\ faults' = faults + 1
    /\ UNCHANGED <<filenames, dry_run>>
    /\ UNCHANGED linkVars

NextDedup == StatFiles \/ Apply \/ ApplyWithFault

SpecDedup == InitDedup /\ [][NextDedup]_vars

----------------------------------------------------------------------------
(* main() with --hardlink: make_hardlinks on every yielded group *)

dedupVars == <<stage, data, newdata, calls>>

\* Mutant: ties go to the last member with the highest link count.
max_by_nlink_last(files) ==
    files[CHOOSE i \in DOMAIN files :
            /\ \A j \in DOMAIN files : files[j].stat.st_nlink <= files[i].stat.st_nlink
            /\ \A j \in DOMAIN files :
                  files[j].stat.st_nlink = files[i].stat.st_nlink => j <= i]

\* max(files, key=lambda f: f.stat.st_nlink): the first maximal member
max_by_nlink(files) ==
    files[CHOOSE i \in DOMAIN files :
            /\ \A j \in DOMAIN files : files[j].stat.st_nlink <= files[i].stat.st_nlink
            /\ \A j \in DOMAIN files :
                  files[j].stat.st_nlink = files[i].stat.st_nlink => i <= j]

\* by_inode of make_hardlinks_within_device
by_inode_of(files) == group_by(files, [f \in Range(files) |-> f.stat.st_ino])

\* The members the loops of make_hardlinks_within_device pass to hardlink:
\* for inode in by_inode, skipping the master's, for f in by_inode[inode]
replacement_targets(files, m) ==
    Flatten(values(SelectSeq(by_inode_of(files),
                             LAMBDA e : e.key # m.stat.st_ino)))

\* for group in deduplicate(filenames): the groups are all computed before
\* the first one is acted on (group_compose returns a list)
Deduplicate ==
    /\ pc = "start"
    /\ groups' = deduplicate(dir, filenames)
    /\ yielded' = groups'
    /\ stderr' = stderr \o stat_errors(dir, filenames)
    /\ total_bytes' = 0
    /\ pc' = IF groups' = <<>> THEN "done" ELSE "main"
    /\ UNCHANGED <<dir, filenames, dry_run, faults, run, parts, master, targets,
                   dev_bytes, group_bytes, attempts, completed, ops, returned>>
    /\ UNCHANGED dedupVars

\* val = opts.action(group): make_hardlinks is entered
MakeHardlinks ==
    /\ pc = "main" /\ groups # <<>>
    /\ parts' = filter_solo(group_by_dev(Head(groups)))
    /\ group_bytes' = 0
    /\ pc' = "make_hardlinks"
    /\ UNCHANGED <<dir, filenames, dry_run, faults, run, groups, yielded, master,
                   targets, dev_bytes, total_bytes, attempts, completed, ops,
                   returned, stderr>>
    /\ UNCHANGED dedupVars

\* make_hardlinks_within_device is entered with the next device partition
WithinDevice ==
    /\ pc = "make_hardlinks" /\ parts # <<>>
    /\ IF Len(by_inode_of(Head(parts))) <= 1
       THEN /\ parts' = Tail(parts)             \* return 0
            /\ UNCHANGED <<pc, master, targets, dev_bytes>>
       ELSE /\ dev_bytes' = 0
            /\ master' = max_by_nlink(Head(parts))
            /\ targets' = replacement_targets(Head(parts), master')
            /\ pc' = "within_device"
            /\ UNCHANGED parts
    /\ UNCHANGED <<dir, filenames, dry_run, faults, run, groups, yielded,
                   group_bytes, total_bytes, attempts, completed, ops, returned,
                   stderr>>
    /\ UNCHANGED dedupVars

\* The hardlink call in progress: its arguments, and which make_hardlinks
\* call of which pass made it
Call ==
    [src |-> master, dest |-> Head(targets), run |-> run,
     call |-> Len(SelectSeq(returned, LAMBDA r : r.run = run)) + 1]

\* except Exception: the diagnostic, and on to the next member
Abandon ==
    /\ stderr' = Append(stderr, <<"hardlink", master.filename, Head(targets).filename>>)
    /\ targets' = Tail(targets)
    /\ pc' = "within_device"

\* hardlink(master, f, dry_run) is called: the assert, and the dry run's return
Hardlink ==
    /\ pc = "within_device" /\ targets # <<>>
    /\ attempts' = Append(attempts, Call)
    /\ IF master.stat.st_dev # Head(targets).stat.st_dev
       THEN Abandon /\ UNCHANGED <<dev_bytes, completed>>     \* AssertionError
       ELSE IF dry_run
       THEN /\ dev_bytes' = dev_bytes + Head(targets).stat.st_size
            /\ completed' = Append(completed, Call)
            /\ targets' = Tail(targets)
            /\ UNCHANGED <<pc, stderr>>
       ELSE /\ pc' = "rename"
            /\ UNCHANGED <<targets, dev_bytes, stderr, completed>>
    /\ UNCHANGED <<dir, filenames, dry_run, faults, run, groups, yielded, parts,
                   master, group_bytes, total_bytes, ops, returned>>
    /\ UNCHANGED dedupVars

\* os.rename(old, new) on a POSIX namespace: new is completed when it exists;
\* nothing happens when both names are links to one inode
os_rename(d, old, new) ==
    IF d[old] = d[new] THEN d
    ELSE [d EXCEPT ![new] = d[old], ![old] = NoFile]

\* os.rename(dest.filename, backup)
Rename ==
    /\ pc = "rename"
    /\ LET dest == Head(targets).filename
       IN IF ~Exists(dir, dest)
          THEN Abandon /\ UNCHANGED <<dir, ops>>     \* ENOENT
          ELSE /\ dir' = os_rename(dir, dest, Bak(dest))
               /\ ops' = Append(ops, [op |-> "rename", path |-> dest, run |-> run])
               /\ pc' = "link"
               /\ UNCHANGED <<targets, stderr>>
    /\ UNCHANGED <<filenames, dry_run, faults, run, groups, yielded, parts, master,
                   dev_bytes, group_bytes, total_bytes, attempts, completed, returned>>
    /\ UNCHANGED dedupVars

\* os.link(src.filename, dest.filename)
Link ==
    /\ pc = "link"
    /\ LET src  == master.filename
           dest == Head(targets).filename
       IN IF \/ ~Exists(dir, src)                    \* ENOENT
             \/ Exists(dir, dest)                    \* EEXIST
             \/ dir[src][1] # DevOfPath(dest)        \* EXDEV
          THEN Abandon /\ UNCHANGED <<dir, ops>>
          ELSE /\ dir' = [dir EXCEPT ![dest] = dir[src]]
               /\ ops' = Append(ops, [op |-> "link", path |-> dest, run |-> run])
               /\ pc' = "unlink"
               /\ UNCHANGED <<targets, stderr>>
    /\ UNCHANGED <<filenames, dry_run, faults, run, groups, yielded, parts, master,
                   dev_bytes, group_bytes, total_bytes, attempts, completed, returned>>
    /\ UNCHANGED dedupVars

\* os.unlink(backup); return dest.stat.st_size
Unlink ==
    /\ pc = "unlink"
    /\ LET backup == Bak(Head(targets).filename)
       IN IF ~Exists(dir, backup)
          THEN Abandon /\ UNCHANGED <<dir, ops, dev_bytes, completed>>   \* ENOENT
          ELSE /\ dir' = [dir EXCEPT ![backup] = NoFile]
               /\ ops' = Append(ops, [op |-> "unlink", path |-> backup, run |-> run])
               /\ dev_bytes' = dev_bytes + Head(targets).stat.st_size
               /\ completed' = Append(completed, Call)
               /\ targets' = Tail(targets)
               /\ pc' = "within_device"
               /\ UNCHANGED stderr
    /\ UNCHANGED <<filenames, dry_run, faults, run, groups, yielded, parts, master,
                   group_bytes, total_bytes, attempts, returned>>
    /\ UNCHANGED dedupVars

\* The step about to be taken raises an OSError that the namespace does not
\* explain (EACCES, EIO, ENOSPC ...)
Fault ==
    /\ pc \in {"rename", "link", "unlink"} /\ faults < MaxFaults
    /\ faults' = faults + 1
    /\ Abandon
    /\ UNCHANGED <<dir, filenames, dry_run, run, groups, yielded, parts, master,
                   dev_bytes, group_bytes, total_bytes, attempts, completed, ops,
                   returned>>
    /\ UNCHANGED dedupVars

\* make_hardlinks_within_device returns bytes_hardlinked
ReturnWithinDevice ==
    /\ pc = "within_device" /\ targets = <<>>
    /\ group_bytes' = group_bytes + dev_bytes
    /\ parts' = Tail(parts)
    /\ pc' = "make_hardlinks"
    /\ UNCHANGED <<dir, filenames, dry_run, faults, run, groups, yielded, master,
                   targets, dev_bytes, total_bytes, attempts, completed, ops,
                   returned, stderr>>
    /\ UNCHANGED dedupVars

\* make_hardlinks returns bytes_hardlinked; total_bytes += val; after the
\* last group main prints the total and returns
ReturnMakeHardlinks ==
    /\ pc = "make_hardlinks" /\ parts = <<>>
    /\ returned' = Append(returned,
                     [files |-> Head(groups), bytes |-> group_bytes, run |-> run])
    /\ total_bytes' = total_bytes + group_bytes
    /\ groups' = Tail(groups)
    /\ pc' = IF groups' = <<>> THEN "done" ELSE "main"
    /\ UNCHANGED <<dir, filenames, dry_run, faults, run, yielded, parts, master,
                   targets, dev_bytes, group_bytes, attempts, completed, ops, stderr>>
    /\ UNCHANGED dedupVars

\* Consolidation is run a second time on the same groups: the FileInfo
\* objects, whose stat was taken by the constructor, are handed to
\* make_hardlinks again.
RepeatOnSameGroups ==
    /\ pc = "done" /\ run = 1
    /\ run' = 2
    /\ groups' = yielded
    /\ total_bytes' = 0
    /\ pc' = IF groups' = <<>> THEN "done" ELSE "main"
    /\ UNCHANGED <<dir, filenames, dry_run, faults, yielded, parts, master, targets,
                   dev_bytes, group_bytes, attempts, completed, ops, returned, stderr>>
    /\ UNCHANGED dedupVars

\* The program is run a second time on the same input: every path is
\* stat'ed again.
RunAgain ==
    /\ pc = "done" /\ run = 1
    /\ run' = 2
    /\ pc' = "start"
    /\ UNCHANGED <<dir, filenames, dry_run, faults, groups, yielded, parts, master,
                   targets, dev_bytes, group_bytes, total_bytes, attempts, completed,
                   ops, returned, stderr>>
    /\ UNCHANGED dedupVars

Next ==
    \/ Deduplicate \/ MakeHardlinks \/ WithinDevice \/ Hardlink
    \/ Rename \/ Link \/ Unlink \/ Fault
    \/ ReturnWithinDevice \/ ReturnMakeHardlinks
    \/ RepeatOnSameGroups \/ RunAgain

Spec == Init /\ [][Next]_vars

----------------------------------------------------------------------------
(* Properties of the grouping pipeline, checked under SpecDedup *)

RECURSIVE IsSubseq(_, _)
\* s can be obtained from t by deleting elements
IsSubseq(s, t) ==
    IF s = <<>> THEN TRUE
    ELSE IF t = <<>> THEN FALSE
    ELSE IF Head(s) = Head(t) THEN IsSubseq(Tail(s), Tail(t))
    ELSE IsSubseq(s, Tail(t))

Content(f) == Inode(dir[f.filename]).content
DevInode(f) == <<f.stat.st_dev, f.stat.st_ino>>
Resolved == stat_files(dir, filenames)
Pairs(files) == {DevInode(f) : f \in Range(files)}

\* C1: every group deduplicate() yields holds only files whose byte content
\* equals that of every other member of the group.
C1_IdenticalContent ==
    \A k \in DOMAIN yielded :
        \A f \in Range(yielded[k]), g \in Range(yielded[k]) : Content(f) = Content(g)

\* A group was yielded although the full-hash stage was handed a group
\* holding two different contents of equal size and equal first block.
C1_Witness ==
    /\ pc = "yielded" /\ yielded # <<>>
    /\ \E k \in DOMAIN calls :
          /\ calls[k].stage = NumFunctions
          /\ \E f \in Range(calls[k].files), g \in Range(calls[k].files) :
                Content(f) # Content(g)
          /\ \E f \in Range(calls[k].files), g \in Range(calls[k].files) :
                DevInode(f) # DevInode(g) /\ f \in Range(yielded[1])
                                          /\ g \in Range(yielded[1])

\* First position in the resolved input R of a file of the size of f
SizeFirstPos(R, f) ==
    CHOOSE i \in DOMAIN R :
        /\ R[i].stat.st_size = f.stat.st_size
        /\ \A j \in 1..(i - 1) : R[j].stat.st_size # f.stat.st_size

\* First position in the resolved input R of the (device, inode) pair of f
InodeFirstPos(R, f) ==
    CHOOSE i \in DOMAIN R :
        /\ DevInode(R[i]) = DevInode(f)
        /\ \A j \in 1..(i - 1) : DevInode(R[j]) # DevInode(f)

GroupsInSizeOrder ==
    yielded # <<>> =>
    \A R \in {Resolved} :
    \A pos \in {[k \in DOMAIN yielded |-> SizeFirstPos(R, yielded[k][1])]} :
        \A k \in DOMAIN yielded, l \in DOMAIN yielded : k < l => pos[k] <= pos[l]

\* C6 as stated: the groups come in the order their size first appears in
\* the input, and the members of each group are in input order.
C6_InputOrder ==
    /\ GroupsInSizeOrder
    /\ yielded # <<>> =>
          \A R \in {Resolved} : \A k \in DOMAIN yielded : IsSubseq(yielded[k], R)

\* C6, amended: the groups come in the order their size first appears in the
\* input; within a group the members are ordered by the first input position
\* of their (device, inode) pair, and the members of one pair are together
\* and in input order.
C6_InodeThenInputOrder ==
    /\ GroupsInSizeOrder
    /\ yielded # <<>> => \A R \in {Resolved} : \A k \in DOMAIN yielded :
          \A pos \in {[x \in DOMAIN yielded[k] |-> InodeFirstPos(R, yielded[k][x])]} :
              /\ \A x \in DOMAIN pos, y \in DOMAIN pos : x < y => pos[x] <= pos[y]
              /\ \A p \in Pairs(yielded[k]) :
                    SelectSeq(yielded[k], LAMBDA g : DevInode(g) = p)
                      = SelectSeq(R, LAMBDA g : DevInode(g) = p)

\* A group was yielded whose paths of one inode were separated in the input
\* by a path of another inode of equal content.
C6_Witness ==
    /\ pc = "yielded"
    /\ \E k \in DOMAIN yielded :
          /\ ~IsSubseq(yielded[k], Resolved)
          /\ \E f \in Range(yielded[k]), g \in Range(yielded[k]) :
                DevInode(f) = DevInode(g) /\ f.filename # g.filename

\* C7: no group with fewer than 2 members is yielded, and none is passed from
\* one grouping function to the next.
C7_NoSingletons ==
    /\ \A k \in DOMAIN yielded : Len(yielded[k]) >= 2
    /\ \A k \in DOMAIN newdata : Len(newdata[k]) >= 2
    /\ stage > 1 => \A k \in DOMAIN data : Len(data[k]) >= 2

\* A group was yielded from an input that names one path twice and holds a
\* file that has no duplicate.
C7_Witness ==
    /\ pc = "yielded" /\ yielded # <<>>
    /\ \E i \in DOMAIN filenames, j \in DOMAIN filenames :
          i < j /\ filenames[i] = filenames[j]
    /\ \E f \in Range(Resolved) : \A k \in DOMAIN yielded : f \notin Range(yielded[k])

\* The first member of files with the (device, inode) pair p
FirstOfPair(files, p) ==
    files[CHOOSE i \in DOMAIN files :
            /\ DevInode(files[i]) = p
            /\ \A j \in 1..(i - 1) : DevInode(files[j]) # p]

\* C8: when all members of the group handed to group_by_hash share one
\* (device, inode) pair the hash provider is not invoked and the group is
\* returned whole; otherwise it is invoked exactly once per pair, on the
\* pair's first member.
C8_InodeShortCircuit ==
    \A k \in DOMAIN calls :
        LET c == calls[k]
        IN IF Cardinality(Pairs(c.files)) = 1
           THEN c.hashed = <<>> /\ c.result = <<c.files>>
           ELSE /\ Len(c.hashed) = Cardinality(Pairs(c.files))
                /\ \A p \in Pairs(c.files) :
                      Cardinality({n \in DOMAIN c.hashed :
                          c.hashed[n] = FirstOfPair(c.files, p).filename}) = 1

\* Two paths of one inode went through both hash stages unhashed and were
\* yielded.
C8_Witness ==
    /\ pc = "yielded" /\ yielded # <<>>
    /\ \E k \in DOMAIN calls :
          /\ calls[k].stage = NumFunctions
          /\ Cardinality(Pairs(calls[k].files)) = 1
          /\ Cardinality(Filenames(calls[k].files)) = 2
          /\ calls[k].files = yielded[1]

\* C10: when no stat call and no hash computation fails, any two input paths
\* that are non-empty regular files of identical content are members of one
\* yielded group.
C10_Complete ==
    (/\ pc = "yielded"
     /\ faults = 0
     /\ \A i \in DOMAIN filenames : Exists(dir, filenames[i]))
    => \A i \in DOMAIN filenames, j \in DOMAIN filenames :
          (/\ i < j
           /\ Inode(dir[filenames[i]]).mode = "reg"
           /\ Inode(dir[filenames[j]]).mode = "reg"
           /\ Inode(dir[filenames[i]]).content # <<>>
           /\ Inode(dir[filenames[i]]).content = Inode(dir[filenames[j]]).content)
          => \E k \in DOMAIN yielded :
                /\ filenames[i] \in Filenames(yielded[k])
                /\ filenames[j] \in Filenames(yielded[k])
                /\ filenames[i] = filenames[j] =>
                      Len(SelectSeq(yielded[k],
                                    LAMBDA f : f.filename = filenames[i])) >= 2

\* Two hardlinked paths and a copy on another inode were yielded together.
C10_Witness ==
    /\ pc = "yielded" /\ faults = 0
    /\ \A i \in DOMAIN filenames : Exists(dir, filenames[i])
    /\ \E k \in DOMAIN yielded :
          /\ \E f \in Range(yielded[k]), g \in Range(yielded[k]) :
                DevInode(f) = DevInode(g) /\ f.filename # g.filename
          /\ \E f \in Range(yielded[k]), g \in Range(yielded[k]) :
                DevInode(f) # DevInode(g)

----------------------------------------------------------------------------
(* Properties of the consolidation, checked under Spec *)

RECURSIVE SumSize(_)
\* The sizes of the targets of a sequence of hardlink calls, added up
SumSize(cs) == IF cs = <<>> THEN 0 ELSE Head(cs).dest.stat.st_size + SumSize(Tail(cs))

\* Number of the make_hardlinks call in progress within its pass
CallNo == Len(SelectSeq(returned, LAMBDA r : r.run = run)) + 1

\* The hardlink calls of history h made by the make_hardlinks_within_device
\* invocation in progress
Current(h) ==
    SelectSeq(h, LAMBDA c : /\ c.run = run /\ c.call = CallNo
                            /\ c.src.stat.st_dev = master.stat.st_dev)

InWithinDevice == pc \in {"within_device", "rename", "link", "unlink"}

\* C2: while the group is consolidated every content that some path reached
\* before the run is still reached by some path.
C2_NoContentLost ==
    ~dry_run =>
        \A p \in AllPaths :
            Exists(InitialDir, p) =>
                \E q \in AllPaths :
                    /\ Exists(dir, q)
                    /\ Inode(dir[q]).content = Inode(InitialDir[p]).content

\* C3: when a partition has been gone through, every member on another inode
\* than the survivor's was handed to hardlink; a call that failed left a
\* diagnostic naming survivor and target and added nothing to the byte count;
\* a call whose three steps succeeded left its target a link to the
\* survivor's inode.
C3_FailureIsolated ==
    (pc = "within_device" /\ targets = <<>> /\ ~dry_run) =>
        /\ \A f \in Range(Head(parts)) :
              f.stat.st_ino # master.stat.st_ino =>
                  \E k \in DOMAIN Current(attempts) : Current(attempts)[k].dest = f
        /\ dev_bytes = SumSize(Current(completed))
        /\ \A f \in Range(Head(parts)) :
              Len(SelectSeq(stderr, LAMBDA e :
                      e = <<"hardlink", master.filename, f.filename>>))
                >= Len(SelectSeq(Current(attempts), LAMBDA c : c.dest = f))
                     - Len(SelectSeq(Current(completed), LAMBDA c : c.dest = f))
        /\ \A k \in DOMAIN Current(completed) :
              dir[Current(completed)[k].dest.filename] = DevInode(master)

\* C4: the partitions make_hardlinks works on hold members of one device
\* each, every hardlink call has its source and its target on one device,
\* and the byte count returned is the sum of what the calls on each device
\* returned.
C4_SameDevice ==
    /\ \A k \in DOMAIN parts :
          \A f \in Range(parts[k]), g \in Range(parts[k]) :
              f.stat.st_dev = g.stat.st_dev
    /\ \A k \in DOMAIN attempts :
          /\ attempts[k].src.stat.st_dev = attempts[k].dest.stat.st_dev
          /\ DevOfPath(attempts[k].src.filename) = DevOfPath(attempts[k].dest.filename)
    /\ \A k \in DOMAIN returned :
          LET r  == returned[k]
              no == Len(SelectSeq(SubSeq(returned, 1, k), LAMBDA x : x.run = r.run))
              on(dev) == SelectSeq(completed,
                            LAMBDA c : /\ c.run = r.run /\ c.call = no
                                       /\ c.dest.stat.st_dev = dev)
          IN r.bytes = SumSize(on(1)) + SumSize(on(2))

\* make_hardlinks returned a byte count to which two devices contributed.
C4_Witness ==
    \E k \in DOMAIN returned :
        /\ returned[k].bytes > 0
        /\ \E x \in DOMAIN completed, y \in DOMAIN completed :
              /\ completed[x].run = completed[y].run
              /\ completed[x].call = completed[y].call
              /\ completed[x].dest.stat.st_dev # completed[y].dest.stat.st_dev
              /\ completed[x].dest \in Range(returned[k].files)
              /\ completed[y].dest \in Range(returned[k].files)

\* C5: the second consolidation of the same groups returns a byte count of
\* zero and performs no rename, link or unlink.  Stated for the passes in
\* which no hardlink call failed and no path failed to stat (nothing was
\* written to stderr), where the first pass left nothing undone.
C5_SecondPassIdle ==
    (~dry_run /\ stderr = <<>>) =>
        /\ \A k \in DOMAIN returned : returned[k].run = 2 => returned[k].bytes = 0
        /\ \A k \in DOMAIN ops : ops[k].run # 2

\* First position of the path p in the input
InputPos(p) ==
    CHOOSE i \in DOMAIN filenames :
        filenames[i] = p /\ \A j \in 1..(i - 1) : filenames[j] # p

\* C9: in a device partition with two or more inodes the survivor is the
\* member with the highest link count, the first of them in the partition
\* and in the input when there are several; no member on its inode is the
\* target of a replacement and every member on another inode is the target
\* of exactly one, whose source is the survivor.
C9_Survivor ==
    InWithinDevice =>
        /\ \E i \in DOMAIN Head(parts) :
              /\ Head(parts)[i] = master
              /\ \A j \in DOMAIN Head(parts) :
                    /\ Head(parts)[j].stat.st_nlink <= master.stat.st_nlink
                    /\ j < i => Head(parts)[j].stat.st_nlink < master.stat.st_nlink
                    /\ Head(parts)[j].stat.st_nlink = master.stat.st_nlink =>
                          InputPos(master.filename) <= InputPos(Head(parts)[j].filename)
        /\ \A k \in DOMAIN Current(attempts) :
              /\ Current(attempts)[k].src = master
              /\ Current(attempts)[k].dest.stat.st_ino # master.stat.st_ino
              /\ Current(attempts)[k].dest \in Range(Head(parts))
        /\ (pc = "within_device" /\ targets = <<>>) =>
              \A f \in Range(Head(parts)) :
                  Len(SelectSeq(Current(attempts), LAMBDA c : c.dest = f))
                    = IF f.stat.st_ino = master.stat.st_ino THEN 0
                      ELSE Len(SelectSeq(Head(parts), LAMBDA g : g = f))

\* A partition was gone through whose survivor is not its first member, with
\* another path on the survivor's inode and a member that was replaced.
C9_Witness ==
    /\ pc = "within_device" /\ targets = <<>>
    /\ master # Head(parts)[1]
    /\ \E f \in Range(Head(parts)) :
          f.stat.st_ino = master.stat.st_ino /\ f.filename # master.filename
    /\ Current(completed) # <<>>

====
